---- MODULE Spec2Model ----
(***************************************************************************)
(* ClickHouse client instrumentation: the method interceptor installed on  *)
(* the client prototype, the span lifecycle of one intercepted call, the   *)
(* nested-tracing suppression scope, and the derivation of span name and   *)
(* attributes from the call parameters.                                    *)
(*                                                                         *)
(* Strings are sequences of one-character strings, so that trimming,      *)
(* whitespace collapsing, truncation and pattern matching are computed     *)
(* character by character as the code computes them.  The JavaScript      *)
(* values null and undefined are the one-element sequences Null and       *)
(* Undefined, which no character string equals.                            *)
(***************************************************************************)
EXTENDS Integers, Sequences, FiniteSets, TLC

\* ------------------------------------------------------------------------
\* Bounds of the model
\* ------------------------------------------------------------------------
MaxCalls == 2

MaxSeqCalls == 1

\* ------------------------------------------------------------------------
\* JavaScript values
\* ------------------------------------------------------------------------
Null == <<"null">>

Undefined == <<"undefined">>

Truthy(s) == s # Null /\ s # Undefined /\ s # <<>>

\* A value that is no string: the number 7, which is truthy and has none of
\* the methods of a string
NumberValue == <<"number">>

IsString(v) == v \notin {Null, Undefined, NumberValue}

\* the conversion of a template literal, `${v}`
TemplateString(v) ==
    CASE v = NumberValue -> <<"7">>
      [] v = Null -> <<"n","u","l","l">>
      [] v = Undefined -> <<"u","n","d","e","f","i","n","e","d">>
      [] OTHER -> v

Lower == <<"a","b","c","d","e","f","g","h","i","j","k","l","m",
           "n","o","p","q","r","s","t","u","v","w","x","y","z">>

Upper == <<"A","B","C","D","E","F","G","H","I","J","K","L","M",
           "N","O","P","Q","R","S","T","U","V","W","X","Y","Z">>

Digits == <<"0","1","2","3","4","5","6","7","8","9">>

Range(f) == {f[i] : i \in DOMAIN f}

\* \s of the regular expressions, String.prototype.trim
WhiteSpace == {" ", "\t", "\n", "\r"}

\* \w of the regular expressions
WordChars == Range(Lower) \cup Range(Upper) \cup Range(Digits) \cup {"_"}

\* [\w.] of the identifier pattern
IdentChars == WordChars \cup {"."}

\* The backtick character U+0060, which a TLA+ string cannot hold, as a token.
Backtick == "BACKTICK"

\* the delimiter class of the identifier pattern: backtick or double quote
QuoteChars == {Backtick, "\""}

UpperChar(c) ==
    IF \E i \in DOMAIN Lower : Lower[i] = c
    THEN Upper[CHOOSE i \in DOMAIN Lower : Lower[i] = c]
    ELSE c

toUpperCase(s) == [i \in 1..Len(s) |-> UpperChar(s[i])]

\* s between the first and the last of the positions keep
Between(s, keep) ==
    IF keep = {} THEN <<>>
    ELSE SubSeq(s, CHOOSE i \in keep : \A j \in keep : i <= j,
                   CHOOSE i \in keep : \A j \in keep : j <= i)

trim(s) == Between(s, {i \in 1..Len(s) : s[i] \notin WhiteSpace})

startsWith(s, p) == Len(s) >= Len(p) /\ SubSeq(s, 1, Len(p)) = p

substring(s, from, to) == SubSeq(s, from + 1, IF to > Len(s) THEN Len(s) ELSE to)

RECURSIVE parseInt(_)
parseInt(s) ==
    IF s = <<>> THEN 0
    ELSE 10 * parseInt(SubSeq(s, 1, Len(s) - 1))
         + (CHOOSE i \in DOMAIN Digits : Digits[i] = s[Len(s)]) - 1

\* ------------------------------------------------------------------------
\* Query analyzer
\* ------------------------------------------------------------------------

\* query.replace(/\s+/g, ' '): every maximal run of whitespace becomes one space
RECURSIVE CollapseFrom(_, _)
CollapseFrom(s, i) ==
    IF i > Len(s) THEN <<>>
    ELSE IF s[i] \notin WhiteSpace THEN <<s[i]>> \o CollapseFrom(s, i + 1)
    ELSE IF i > 1 /\ s[i - 1] \in WhiteSpace THEN CollapseFrom(s, i + 1)
    ELSE <<" ">> \o CollapseFrom(s, i + 1)

normalizeQuery(query) == trim(CollapseFrom(query, 1))

\* the keyword kw (upper case) at position i, compared case-insensitively
KeywordAt(q, i, kw) ==
    /\ i + Len(kw) - 1 <= Len(q)
    /\ toUpperCase(SubSeq(q, i, i + Len(kw) - 1)) = kw

\* the first position at or after j that holds no whitespace
RECURSIVE SkipSpaces(_, _)
SkipSpaces(q, j) ==
    IF j <= Len(q) /\ q[j] \in WhiteSpace THEN SkipSpaces(q, j + 1) ELSE j

\* KW1\s+KW2\s+ ... matched from position i: the position after it, or 0
RECURSIVE AfterKeywords(_, _, _)
AfterKeywords(q, i, kws) ==
    IF kws = <<>> THEN i
    ELSE IF /\ KeywordAt(q, i, Head(kws))
            /\ i + Len(Head(kws)) <= Len(q)
            /\ q[i + Len(Head(kws))] \in WhiteSpace
         THEN AfterKeywords(q, SkipSpaces(q, i + Len(Head(kws))), Tail(kws))
         ELSE 0

\* the last position of the run of identifier characters that starts at a
RECURSIVE IdentEnd(_, _)
IdentEnd(q, a) ==
    IF a + 1 <= Len(q) /\ q[a + 1] \in IdentChars THEN IdentEnd(q, a + 1) ELSE a

\* position e, or e + 1 when a delimiter follows e
WithClosing(q, e) == IF e + 1 <= Len(q) /\ q[e + 1] \in QuoteChars THEN e + 1 ELSE e

\* the capture group: optional delimiter, one or more identifier characters,
\* optional delimiter, from position j; <<>> when it does not match there
IdentCapture(q, j) ==
    LET a == IF j <= Len(q) /\ q[j] \in QuoteChars THEN j + 1 ELSE j
    IN  IF a <= Len(q) /\ q[a] \in IdentChars
        THEN SubSeq(q, j, WithClosing(q, IdentEnd(q, a)))
        ELSE <<>>

\* \b before a keyword at position i
WordBoundary(q, i) == i = 1 \/ q[i - 1] \notin WordChars

\* the capture group when the identifier starts at j; j = 0: no keywords
CaptureFrom(q, j) == IF j = 0 THEN <<>> ELSE IdentCapture(q, j)

\* the capture group of a match that starts at position i, <<>> if none does
CaptureAt(q, i, kws) ==
    IF WordBoundary(q, i) THEN CaptureFrom(q, AfterKeywords(q, i, kws)) ELSE <<>>

\* the match at the least of the positions hits
LeftmostCapture(q, kws, hits) ==
    IF hits = {} THEN Null
    ELSE CaptureAt(q, CHOOSE h \in hits : \A k \in hits : h <= k, kws)

\* query.match(/\bKW1\s+KW2\s+(identifier)/i): group 1 of the leftmost match,
\* or Null
RegexMatch(q, kws) ==
    LeftmostCapture(q, kws, {i \in 1..Len(q) : CaptureAt(q, i, kws) # <<>>})

\* .replace(/[delimiters]/g, '')
StripQuotes(s) == LET NotQuote(c) == c \notin QuoteChars IN SelectSeq(s, NotQuote)

KwFROM == <<"F","R","O","M">>

KwINSERT == <<"I","N","S","E","R","T">>

KwINTO == <<"I","N","T","O">>

KwUPDATE == <<"U","P","D","A","T","E">>

KwDELETE == <<"D","E","L","E","T","E">>

\* the matches of parseTableFromQuery with INSERT INTO tried before FROM
FirstMatchInsertFirst(normalized, fromMatch, insertMatch, updateMatch, deleteMatch) ==
    IF insertMatch # Null THEN StripQuotes(insertMatch)
    ELSE IF fromMatch # Null THEN StripQuotes(fromMatch)
    ELSE IF startsWith(normalized, KwUPDATE) /\ updateMatch # Null
         THEN StripQuotes(updateMatch)
    ELSE IF startsWith(normalized, KwDELETE) /\ deleteMatch # Null
         THEN StripQuotes(deleteMatch)
    ELSE Null

\* the first of the four matches of parseTableFromQuery that applies
FirstMatch(normalized, fromMatch, insertMatch, updateMatch, deleteMatch) ==
    IF fromMatch # Null THEN StripQuotes(fromMatch)
    ELSE IF insertMatch # Null THEN StripQuotes(insertMatch)
    ELSE IF startsWith(normalized, KwUPDATE) /\ updateMatch # Null
         THEN StripQuotes(updateMatch)
    ELSE IF startsWith(normalized, KwDELETE) /\ deleteMatch # Null
         THEN StripQuotes(deleteMatch)
    ELSE Null

parseTableFromQuery(query) ==
    IF ~Truthy(query) THEN Null
    ELSE FirstMatch(toUpperCase(trim(query)),
                    RegexMatch(query, <<KwFROM>>),
                    RegexMatch(query, <<KwINSERT, KwINTO>>),
                    RegexMatch(query, <<KwUPDATE>>),
                    RegexMatch(query, <<KwDELETE, KwFROM>>))

\* ------------------------------------------------------------------------
\* Call parameters and clients
\* ------------------------------------------------------------------------

OpQuery == <<"q","u","e","r","y">>

OpInsert == <<"i","n","s","e","r","t">>

OpCommand == <<"c","o","m","m","a","n","d">>

OpExec == <<"e","x","e","c">>

\* The first argument of a call: a QueryParams / InsertParams object, or
\* undefined (defined = FALSE).  A field the object lacks is Undefined.
\* A caller outside the declared types can pass a truthy primitive, which is
\* no object (object = FALSE) and has no fields.
NoParams == [defined |-> FALSE, object |-> FALSE, query |-> Undefined,
             table |-> Undefined]

MkParams(q, t) == [defined |-> TRUE, object |-> TRUE, query |-> q, table |-> t]

PrimitiveParams == [defined |-> TRUE, object |-> FALSE, query |-> Undefined,
                    table |-> Undefined]

\* #extractTableName raises a TypeError: the `in` operator applied to a
\* primitive, params.table.trim() on a table that is no string, or
\* query.trim() in #parseTableFromQuery on a query that is no string
TableNameFaults(params, operation) ==
    /\ params.defined
    /\ IF ~params.object THEN TRUE
       ELSE IF operation = OpInsert /\ Truthy(params.table)
            THEN ~IsString(params.table)
       ELSE IF Truthy(params.query) THEN ~IsString(params.query)
       ELSE FALSE

\* #extractQueryText raises a TypeError: the `in` operator applied to a
\* primitive, or query.replace() in #normalizeQuery on a query that is no
\* string
QueryTextFaults(params, operation) ==
    /\ params.defined
    /\ IF ~params.object THEN TRUE
       ELSE Truthy(params.query) /\ ~IsString(params.query)

\* lines 92-93 of the wrapper raise instead of yielding a table name and a
\* query text
DerivationFaults(params, operation) ==
    TableNameFaults(params, operation) \/ QueryTextFaults(params, operation)

extractTableName(params, operation) ==
    IF ~params.defined THEN Null
    ELSE IF operation = OpInsert /\ Truthy(params.table) THEN trim(params.table)
    ELSE IF Truthy(params.query) THEN parseTableFromQuery(params.query)
    ELSE Null

StrInsertInto == <<"I","N","S","E","R","T"," ","I","N","T","O"," ">>

extractQueryText(params, operation) ==
    IF ~params.defined THEN operation
    ELSE IF Truthy(params.query) THEN normalizeQuery(params.query)
    ELSE IF Truthy(params.table) THEN StrInsertInto \o TemplateString(params.table)
    ELSE operation


\* A ClickHouseClient instance: optional connectionParams with optional url
\* (hostname, port; port is the empty string when the URL names none) and
\* optional database.
NoUrl == [defined |-> FALSE, hostname |-> <<>>, port |-> <<>>]

MkUrl(h, p) == [defined |-> TRUE, hostname |-> h, port |-> p]

NoConnectionParams == [defined |-> FALSE, url |-> NoUrl, database |-> Undefined]

MkConnectionParams(u, d) == [defined |-> TRUE, url |-> u, database |-> d]

\* ------------------------------------------------------------------------
\* Attribute builder
\* ------------------------------------------------------------------------
ATTR_DB_SYSTEM_NAME == "db.system.name"

ATTR_DB_QUERY_TEXT == "db.query.text"

ATTR_DB_OPERATION_NAME == "db.operation.name"

ATTR_DB_NAMESPACE == "db.namespace"

ATTR_DB_COLLECTION_NAME == "db.collection.name"

ATTR_SERVER_ADDRESS == "server.address"

ATTR_SERVER_PORT == "server.port"

ATTR_DB_SYSTEM == "db.system"

ATTR_DB_STATEMENT == "db.statement"

ATTR_DB_OPERATION == "db.operation"

ATTR_DB_NAME == "db.name"

StrClickhouse == <<"c","l","i","c","k","h","o","u","s","e">>

StrEllipsis == <<".",".",".">>

\* an attribute mapping with no key
NoAttributes == [k \in {} |-> <<>>]

\* the four attributes every span carries
BaseAttributes(operation) ==
    (ATTR_DB_SYSTEM_NAME :> StrClickhouse)
    @@ (ATTR_DB_OPERATION_NAME :> operation)
    @@ (ATTR_DB_SYSTEM :> StrClickhouse)
    @@ (ATTR_DB_OPERATION :> operation)

\* the collection name set with the test tableName !== null: set also for
\* the empty table name
TableAttributesNonNull(tableName) ==
    IF tableName # Null THEN (ATTR_DB_COLLECTION_NAME :> tableName)
    ELSE NoAttributes

TableAttributes(tableName) ==
    IF Truthy(tableName) THEN (ATTR_DB_COLLECTION_NAME :> tableName)
    ELSE NoAttributes

\* the truncation with >= in place of >: a text of exactly maxQueryLength
\* characters is marked too
TruncatedAtLimit(queryText, maxQueryLength) ==
    IF Len(queryText) >= maxQueryLength
    THEN substring(queryText, 0, maxQueryLength) \o StrEllipsis
    ELSE queryText

Truncated(queryText, maxQueryLength) ==
    IF Len(queryText) > maxQueryLength
    THEN substring(queryText, 0, maxQueryLength) \o StrEllipsis
    ELSE queryText

BothQueryKeys(truncatedQuery) ==
    (ATTR_DB_QUERY_TEXT :> truncatedQuery) @@ (ATTR_DB_STATEMENT :> truncatedQuery)

\* #buildAttributes without the test of maxQueryLength
QueryAttributesAlways(queryText, maxQueryLength) ==
    IF Truthy(queryText)
    THEN BothQueryKeys(Truncated(queryText, maxQueryLength))
    ELSE NoAttributes

QueryAttributes(queryText, maxQueryLength) ==
    IF maxQueryLength > 0 /\ Truthy(queryText)
    THEN BothQueryKeys(Truncated(queryText, maxQueryLength))
    ELSE NoAttributes

ServerAttributes(cp) ==
    IF cp.defined /\ cp.url.defined
    THEN (ATTR_SERVER_ADDRESS :> cp.url.hostname)
         @@ (IF Truthy(cp.url.port)
             THEN (ATTR_SERVER_PORT :> parseInt(cp.url.port))
             ELSE NoAttributes)
    ELSE NoAttributes

NamespaceAttributes(cp) ==
    IF cp.defined /\ Truthy(cp.database)
    THEN (ATTR_DB_NAMESPACE :> cp.database) @@ (ATTR_DB_NAME :> cp.database)
    ELSE NoAttributes

\* the assignments of #buildAttributes set keys that differ from one another,
\* so the mapping is the union of what each of them sets
buildAttributes(client, operation, tableName, queryText, cfg) ==
    BaseAttributes(operation)
    @@ TableAttributes(tableName)
    @@ QueryAttributes(queryText, cfg.maxQueryLength)
    @@ ServerAttributes(client.connectionParams)
    @@ NamespaceAttributes(client.connectionParams)

\* `clickhouse.${operation} ${tableName}` or `clickhouse.${operation}`
SpanName(operation, tableName) ==
    IF Truthy(tableName)
    THEN StrClickhouse \o <<".">> \o operation \o <<" ">> \o tableName
    ELSE StrClickhouse \o <<".">> \o operation


\* ------------------------------------------------------------------------
\* State
\* ------------------------------------------------------------------------
VARIABLES
    config,     \* the options record the constructor stored
    proto,      \* ClickHouseClient.prototype: per property, the wrappers on it
    lastCb,     \* the most recent patch/unpatch callback: its kind, the exports
                \* it received and returned, and what the client module saw
                \* last ("load", "reload" for a load that follows a load,
                \* "unload")
    calls,      \* the calls made to the intercepted methods, in call order
    spans,      \* the spans the tracer has started
    promises,   \* the promises of the run
    jobs        \* the microtask queue: promise reaction jobs, first in first out

vars == <<config, proto, lastCb, calls, spans, promises, jobs>>

DEFAULT_CONFIG ==
    [maxQueryLength |-> 2048,
     requireParentSpan |-> FALSE,
     suppressInternalInstrumentation |-> TRUE]

\* Values of maxQueryLength a constructor call passes
QueryLengths == {0, 4, 16, DEFAULT_CONFIG.maxQueryLength}

\* { ...DEFAULT_CONFIG, ...config } for the constructor's argument
Configs ==
    {DEFAULT_CONFIG} \cup
    [maxQueryLength : QueryLengths,
     requireParentSpan : BOOLEAN,
     suppressInternalInstrumentation : BOOLEAN]

\* The methods init() instruments, and a property it does not name
Methods == {"query", "insert", "command", "exec"}

Props == Methods \cup {"close"}

\* ------------------------------------------------------------------------
\* Context API: a context carries the active span and the suppression flag
\* ------------------------------------------------------------------------
NoSpan == 0

\* A span of the application, not started by this instrumentation
UserSpan == -1

MkContext(sp, sup) == [span |-> sp, suppressed |-> sup]

getSpan(ctx) == ctx.span

setSpan(ctx, sp) == [ctx EXCEPT !.span = sp]

suppressTracing(ctx) == [ctx EXCEPT !.suppressed = TRUE]

\* ------------------------------------------------------------------------
\* Span API
\* ------------------------------------------------------------------------
NoError == "null"

Errors == {"E1", "E2"}

Values == {"V1", "V2"}

\* error.message
Message(e) == IF e = "E1" THEN "boom" ELSE "timeout"

\* tracer.startSpan(name, { kind, attributes }) in the context ctx
startSpan(sp, c, name, attributes, ctx) ==
    Append(sp, [call |-> c,
                name |-> name,
                kind |-> "CLIENT",
                attributes |-> attributes,
                parent |-> getSpan(ctx),
                status |-> "UNSET",
                message |-> "",
                exceptions |-> <<>>,
                statusSets |-> 0,
                ended |-> 0])

endSpan(sp, id, error) ==
    IF error # NoError
    THEN [sp EXCEPT ![id] = [@ EXCEPT !.exceptions = Append(@, error),
                                      !.status = "ERROR",
                                      !.message = Message(error),
                                      !.statusSets = @ + 1,
                                      !.ended = @ + 1]]
    ELSE [sp EXCEPT ![id] = [@ EXCEPT !.status = "OK",
                                      !.statusSets = @ + 1,
                                      !.ended = @ + 1]]


\* ------------------------------------------------------------------------
\* Promises: then() registers a reaction; settling a promise queues one job
\* per reaction; a job runs the reaction's handlers and settles the promise
\* then() returned
\* ------------------------------------------------------------------------
NoPromise == 0

\* the reaction then() registers for the wrapper's two continuations on span
WrapperReaction(span, derived) ==
    [kind |-> "wrapper", span |-> span, derived |-> derived, call |-> 0]

\* the reaction of the caller's own handlers on the value call c returned
CallerReaction(c) ==
    [kind |-> "caller", span |-> NoSpan, derived |-> NoPromise, call |-> c]

NewPromise(source) ==
    [source |-> source, state |-> "pending", value |-> "", reactions |-> <<>>]

MkJob(reaction, state, value) ==
    [reaction |-> reaction, state |-> state, value |-> value]

\* the jobs queued when a promise with these reactions settles
RECURSIVE ReactionJobs(_, _, _)
ReactionJobs(reactions, state, value) ==
    IF reactions = <<>> THEN <<>>
    ELSE <<MkJob(Head(reactions), state, value)>>
         \o ReactionJobs(Tail(reactions), state, value)

\* promise p is fulfilled or rejected with value
SettlePromise(st, p, state, value) ==
    [st EXCEPT !.promises[p] = [@ EXCEPT !.state = state,
                                         !.value = value,
                                         !.reactions = <<>>],
               !.jobs = @ \o ReactionJobs(st.promises[p].reactions, state, value)]

\* p.then(onFulfilled, onRejected): registers the reaction on p, or queues its
\* job when p is settled already
Then(st, p, reaction) ==
    IF st.promises[p].state = "pending"
    THEN [st EXCEPT !.promises[p].reactions = Append(@, reaction)]
    ELSE [st EXCEPT !.jobs = Append(@, MkJob(reaction, st.promises[p].state,
                                             st.promises[p].value))]

\* ------------------------------------------------------------------------
\* One call of an intercepted method, up to the point where it returns
\* ------------------------------------------------------------------------
ValueResult(v) == [kind |-> "value", value |-> v, promise |-> NoPromise]

ThrowResult(e) == [kind |-> "throw", value |-> e, promise |-> NoPromise]

ThenableResult(p) == [kind |-> "thenable", value |-> "", promise |-> p]

Event(ev, span) == [ev |-> ev, span |-> span]

Emit(st, ev, span) == [st EXCEPT !.log = Append(@, Event(ev, span))]

\* original.apply(thisArg, args) in the context ctx: the client library's own
\* method, which returns a value, returns a promise, or throws
ApplyOriginal(inp, thisArg, args, ctx, st) ==
    LET result ==
            CASE inp.behaviour.kind = "value" -> ValueResult(inp.behaviour.value)
              [] inp.behaviour.kind = "throw" -> ThrowResult(inp.behaviour.value)
              [] inp.behaviour.kind = "thenable" ->
                    ThenableResult(Len(st.promises) + 1)
        st1 == [Emit(st, "original", NoSpan) EXCEPT
                    !.invocations = Append(@, [receiver |-> thisArg,
                                               args |-> args,
                                               ctx |-> ctx,
                                               result |-> result])]
    IN  [st |-> IF result.kind = "thenable"
                THEN [st1 EXCEPT !.promises = Append(@, NewPromise("original"))]
                ELSE st1,
         result |-> result]

\* the params the wrapper function declares: its first argument
ParamsOf(args) == IF Len(args) >= 1 THEN args[1] ELSE NoParams

\* original.call(thisArg, params) in place of original.apply(thisArg, arguments)
OnlyParams(args) == <<ParamsOf(args)>>

\* what the wrapper hands on to the original: the arguments object
ForwardedArgs(args) == args

\* callOriginalFunction without the test of the option
AlwaysSuppressed(cfg, active) == suppressTracing(active)

\* the context callOriginalFunction runs the original in, given the active one
CallContext(cfg, active) ==
    IF cfg.suppressInternalInstrumentation THEN suppressTracing(active) ELSE active

\* instrumentation.getConfig(): the options the instrumentation holds now
getConfig(st) == st.config

\* the options a call acts on at one of its three reads of getConfig(): at the
\* gate, in #buildAttributes, in #callOriginalFunction
ReadConfig(st, point, cfg) ==
    [st EXCEPT !.reads = Append(@, [point |-> point, config |-> cfg])]

\* #callOriginalFunction reading the defaults of the module in place of the
\* options of the instrumentation
CallConfigDefaults(st) == DEFAULT_CONFIG

\* const config = this.getConfig() in #callOriginalFunction
CallConfig(st) == getConfig(st)

\* the gate without the test of the parent span
GatedByOptionAlone(cfg, ctx) == cfg.requireParentSpan

\* the gate of the wrapper: pass the call through without a span
Gated(cfg, ctx) == cfg.requireParentSpan /\ getSpan(ctx) = NoSpan

\* tracer.startSpan(spanName, { kind: SpanKind.CLIENT, attributes }) with the
\* name and the attributes the wrapper derives
StartNamed(st, c, client, operation, tableName, queryText, cfg, ctx) ==
    [Emit(st, "startSpan", Len(st.spans) + 1) EXCEPT
        !.spans = startSpan(@, c, SpanName(operation, tableName),
                            buildAttributes(client, operation, tableName,
                                            queryText, cfg),
                            ctx)]

\* the wrapper from the gate to the start of the span
Started(st, c, client, operation, params, cfg, ctx) ==
    StartNamed(ReadConfig(st, "attributes", cfg), c, client, operation,
               extractTableName(params, operation),
               extractQueryText(params, operation), cfg, ctx)

\* the wrapper past the gate when lines 92-93 raise: the TypeError leaves the
\* wrapper, which has started no span and has not called the original
Faulted(st) == [st |-> st, result |-> ThrowResult("TypeError")]

\* the promise made without the continuations registered on p
AttachNothing(span, st, p) ==
    [st |-> [st EXCEPT !.promises = Append(@, NewPromise("derived"))],
     result |-> ThenableResult(Len(st.promises) + 1)]

\* the continuations registered and the span ended at once as well, as when
\* the test for a thenable does not return
AttachAndEnd(span, st, p) ==
    [st |-> [Emit(Then([st EXCEPT !.promises = Append(@, NewPromise("derived"))],
                       p, WrapperReaction(span, Len(st.promises) + 1)),
                  "endSpan", span)
             EXCEPT !.spans = endSpan(@, span, NoError)],
     result |-> ThenableResult(Len(st.promises) + 1)]

\* result.then(onFulfilled, onRejected) on the promise p the original returned:
\* then() makes the promise the wrapper returns
AttachContinuations(span, st, p) ==
    [st |-> Then([st EXCEPT !.promises = Append(@, NewPromise("derived"))],
                 p, WrapperReaction(span, Len(st.promises) + 1)),
     result |-> ThenableResult(Len(st.promises) + 1)]

\* the callback of context.with without line 127: a value is returned with
\* the span left open
FinishWithoutEnd(span, r) ==
    IF r.result.kind = "thenable"
    THEN AttachContinuations(span, r.st, r.result.promise)
    ELSE r

\* the callback of context.with after the original was called with outcome r:
\* a thenable gets the continuations, a value ends the span with OK, and an
\* exception leaves the callback as it came
Finish(span, r) ==
    CASE r.result.kind = "thenable" ->
            AttachContinuations(span, r.st, r.result.promise)
      [] r.result.kind = "value" ->
            [st |-> [Emit(r.st, "endSpan", span) EXCEPT
                        !.spans = endSpan(@, span, NoError)],
             result |-> r.result]
      [] r.result.kind = "throw" -> r

\* The function on the prototype with n wrappers around the original, called
\* on thisArg with args in the context ctx.  layers[n] is the outermost
\* wrapper; its `original` is the function with n - 1 wrappers.
RECURSIVE Invoke(_, _, _, _, _, _, _)
Invoke(n, layers, inp, thisArg, args, ctx, st) ==
    IF n = 0 THEN ApplyOriginal(inp, thisArg, args, ctx, st)
    ELSE IF Gated(getConfig(st), ctx)
    THEN Invoke(n - 1, layers, inp, thisArg, ForwardedArgs(args), ctx,
                ReadConfig(st, "gate", getConfig(st)))
    ELSE IF DerivationFaults(ParamsOf(args), layers[n].operation)
    THEN Faulted(ReadConfig(st, "gate", getConfig(st)))
    ELSE Finish(Len(st.spans) + 1,
                Invoke(n - 1, layers, inp, thisArg, ForwardedArgs(args),
                       CallContext(CallConfig(st),
                                   setSpan(ctx, Len(st.spans) + 1)),
                       ReadConfig(Started(ReadConfig(st, "gate", getConfig(st)),
                                          inp.call, thisArg, layers[n].operation,
                                          ParamsOf(args), getConfig(st), ctx),
                                  "call", CallConfig(st))))

\* onFulfilled without its `return res`
onFulfilledDropsResult(st, span, res) ==
    [st |-> [Emit(st, "endSpan", span) EXCEPT !.spans = endSpan(@, span, NoError)],
     state |-> "fulfilled",
     value |-> "undefined"]

\* the onFulfilled continuation of the wrapper: ends the span, returns res
onFulfilled(st, span, res) ==
    [st |-> [Emit(st, "endSpan", span) EXCEPT !.spans = endSpan(@, span, NoError)],
     state |-> "fulfilled",
     value |-> res]

\* onRejected without its `throw err`
onRejectedSwallows(st, span, err) ==
    [st |-> [Emit(st, "endSpan", span) EXCEPT !.spans = endSpan(@, span, err)],
     state |-> "fulfilled",
     value |-> "undefined"]

\* onRejected ending the span started last, as with the span kept in a field
\* of the instrumentation instead of the closure of the call
onRejectedLatestSpan(st, span, err) ==
    [st |-> [Emit(st, "endSpan", Len(st.spans)) EXCEPT
                !.spans = endSpan(@, Len(st.spans), err)],
     state |-> "rejected",
     value |-> err]

\* the onRejected continuation of the wrapper: ends the span, throws err
onRejected(st, span, err) ==
    [st |-> [Emit(st, "endSpan", span) EXCEPT !.spans = endSpan(@, span, err)],
     state |-> "rejected",
     value |-> err]

\* ------------------------------------------------------------------------
\* Method interceptor
\* ------------------------------------------------------------------------

\* the function on a property: the original with the wrappers applied to it,
\* innermost first; the original itself is the empty sequence
isWrapped(f) == Len(f) > 0

\* _unwrap(prototype, methodName): puts back what the outermost wrapper wraps,
\* and changes nothing when the property holds no wrapper
Unwrap(pr, methodName) ==
    IF isWrapped(pr[methodName])
    THEN [pr EXCEPT ![methodName] = SubSeq(@, 1, Len(@) - 1)]
    ELSE pr

\* _wrap(prototype, methodName, wrapper): wraps what the property holds
Wrap(pr, methodName, wrapper) == [pr EXCEPT ![methodName] = Append(@, wrapper)]

createWrapper(operation) == [operation |-> operation]

\* wrapMethod without the isWrapped test
wrapMethodAgain(pr, methodName, operation) ==
    Wrap(pr, methodName, createWrapper(operation))

wrapMethod(pr, methodName, operation) ==
    LET unwrapped == IF isWrapped(pr[methodName]) THEN Unwrap(pr, methodName) ELSE pr
    IN  Wrap(unwrapped, methodName, createWrapper(operation))

\* the module exports a callback receives: the client module, whose
\* ClickHouseClient has the prototype proto, or exports without that class
ModuleExports == {"client", "other"}

HasPrototype(moduleExports) == moduleExports = "client"

\* the patch callback with the operation of exec copied from command
patchExecAsCommand(pr) ==
    wrapMethod(wrapMethod(wrapMethod(wrapMethod(pr,
        "query", OpQuery), "insert", OpInsert), "command", OpCommand), "exec", OpCommand)

\* the patch callback of init(), on the prototype
patch(pr) ==
    wrapMethod(wrapMethod(wrapMethod(wrapMethod(pr,
        "query", OpQuery), "insert", OpInsert), "command", OpCommand), "exec", OpExec)

\* the unpatch callback of init(), on the prototype
unpatch(pr) == Unwrap(Unwrap(Unwrap(Unwrap(pr, "query"), "insert"), "command"), "exec")


\* ------------------------------------------------------------------------
\* Inputs
\* ------------------------------------------------------------------------
ClientPlain == [id |-> "c1", connectionParams |-> NoConnectionParams]

ClientConnected ==
    [id |-> "c2",
     connectionParams |-> MkConnectionParams(MkUrl(<<"c","h">>, <<"8","4">>),
                                             <<"d","b">>)]

Clients == {ClientPlain, ClientConnected}

\* { query: 'SELECT a  FROM t1' }
ParamsSelect ==
    MkParams(<<"S","E","L","E","C","T"," ","a"," "," ","F","R","O","M"," ","t","1">>,
             Undefined)

\* { table: 'ev', values: ... }
ParamsInsert == MkParams(Undefined, <<"e","v">>)

\* a second positional argument
ExtraArg == MkParams(<<"x">>, Undefined)

ArgLists == {<<>>, <<ParamsSelect>>, <<ParamsInsert, ExtraArg>>}

\* the context active where the call is made
AmbientContexts == {MkContext(sp, sup) : sp \in {NoSpan, UserSpan}, sup \in BOOLEAN}

\* what the client library's method does when invoked
Behaviours ==
    {[kind |-> "value", value |-> "V1"],
     [kind |-> "throw", value |-> "E1"],
     [kind |-> "thenable", value |-> ""]}

CallInputs ==
    [method : Methods, thisArg : Clients, args : ArgLists,
     ambient : AmbientContexts, behaviour : Behaviours]

\* the calls of the lifecycle specification: every kind of behaviour of the
\* original, made with and without a parent span
LifecycleInputs ==
    [method : {"query"}, thisArg : {ClientConnected}, args : {<<ParamsSelect>>},
     ambient : {MkContext(NoSpan, FALSE), MkContext(UserSpan, FALSE)},
     behaviour : Behaviours]

\* { query: 'insert into a select 1 from b' }: an INSERT INTO and a FROM clause
ParamsInsertSelect ==
    MkParams(<<"i","n","s","e","r","t"," ","i","n","t","o"," ","a"," ","s",
             "e","l","e","c","t"," ","1"," ","f","r","o","m"," ","b">>,
             Undefined)

\* { query: 'ALTER TABLE x UPDATE y=1' }: an UPDATE that is not at the start
ParamsAlterUpdate ==
    MkParams(<<"A","L","T","E","R"," ","T","A","B","L","E"," ","x"," ","U",
             "P","D","A","T","E"," ","y","=","1">>,
             Undefined)

\* { query: 'update BACKTICK t2 BACKTICK SET y=1' }, the table name between backticks
ParamsUpdate ==
    MkParams(<<"u","p","d","a","t","e"," ",Backtick,"t","2",Backtick," ","S",
             "E","T"," ","y","=","1">>,
             Undefined)

\* { query: 'DELETE FROM d.t' }, the table name between double quotes
ParamsDelete ==
    MkParams(<<"D","E","L","E","T","E"," ","F","R","O","M"," ","\"","d",".",
             "t","\"">>,
             Undefined)

\* { query: 'OPTIMIZE TABLE x' }: no pattern matches
ParamsOptimize ==
    MkParams(<<"O","P","T","I","M","I","Z","E"," ","T","A","B","L","E"," ",
             "x">>,
             Undefined)

\* { query: '  ' }: whitespace alone
ParamsBlankQuery ==
    MkParams(<<" "," ">>,
             Undefined)

\* { table: '  ' }: whitespace alone
ParamsBlankTable ==
    MkParams(Undefined, <<" "," ">>)

\* { query: 'SELECT a  FROM t1', table: ' ev ' }
ParamsTableAndQuery == MkParams(ParamsSelect.query, <<" ","e","v"," ">>)

\* { query: 7 } and { table: 7 }: fields that are no strings
ParamsNumberQuery == MkParams(NumberValue, Undefined)

ParamsNumberTable == MkParams(Undefined, NumberValue)

\* the params the declared types allow
TypedParams ==
    {ParamsSelect, ParamsInsert, ParamsInsertSelect, ParamsAlterUpdate,
     ParamsUpdate, ParamsDelete, ParamsOptimize, ParamsBlankQuery,
     ParamsBlankTable, ParamsTableAndQuery}

\* the params a caller outside the declared types passes
UntypedParams == {PrimitiveParams, ParamsNumberQuery, ParamsNumberTable}

\* the calls of the derivation specification: every method with every params,
\* typed or not, and with none
DeriveInputs ==
    [method : Methods, thisArg : Clients,
     args : {<<>>} \cup {<<p>> : p \in TypedParams \cup UntypedParams},
     ambient : {MkContext(NoSpan, FALSE)}, behaviour : Behaviours]

\* the calls of the configuration specification
ConfigInputs ==
    [method : {"query"}, thisArg : {ClientPlain}, args : {<<ParamsSelect>>},
     ambient : {MkContext(NoSpan, FALSE)},
     behaviour : {b \in Behaviours : b.kind # "throw"}]

\* ------------------------------------------------------------------------
\* Actions
\* ------------------------------------------------------------------------
NotObserved == [state |-> "none", value |-> ""]

\* the state after new ClickHouseInstrumentation(options), options in cfgs
Constructed(cfgs) ==
    /\ config \in cfgs
    /\ proto = [p \in Props |-> <<>>]
    /\ lastCb = [module |-> "none", kind |-> "none", exports |-> "none",
                 returned |-> "none"]
    /\ calls = <<>>
    /\ spans = <<>>
    /\ promises = <<>>
    /\ jobs = <<>>

\* the framework runs the patch callback of init() on moduleExports
Load(moduleExports) ==
    /\ proto' = IF HasPrototype(moduleExports) THEN patch(proto) ELSE proto
    /\ lastCb' = [module |-> IF ~HasPrototype(moduleExports) THEN lastCb.module
                             ELSE IF lastCb.module \in {"load", "reload"}
                                  THEN "reload" ELSE "load",
                  kind |-> "load",
                  exports |-> moduleExports,
                  returned |-> moduleExports]
    /\ UNCHANGED <<config, calls, spans, promises, jobs>>

\* the unpatch callback without the test of line 300: the prototype it knows
\* is unwrapped whatever the exports hold
UnloadAnyExports(moduleExports) ==
    /\ proto' = unpatch(proto)
    /\ lastCb' = [module |-> "unload",
                  kind |-> "unload",
                  exports |-> moduleExports,
                  returned |-> moduleExports]
    /\ UNCHANGED <<config, calls, spans, promises, jobs>>

\* the framework runs the unpatch callback of init() on moduleExports
Unload(moduleExports) ==
    /\ proto' = IF HasPrototype(moduleExports) THEN unpatch(proto) ELSE proto
    /\ lastCb' = [module |-> IF HasPrototype(moduleExports) THEN "unload"
                             ELSE lastCb.module,
                  kind |-> "unload",
                  exports |-> moduleExports,
                  returned |-> moduleExports]
    /\ UNCHANGED <<config, calls, spans, promises, jobs>>

\* the state after the call inp through n wrappers had the outcome r
Returned(inp, n, r) ==
    /\ spans' = r.st.spans
    /\ promises' = r.st.promises
    /\ jobs' = r.st.jobs
    /\ calls' = Append(calls,
          [method |-> inp.method,
           thisArg |-> inp.thisArg,
           args |-> inp.args,
           ambient |-> inp.ambient,
           behaviour |-> inp.behaviour,
           wrappers |-> n,
           module |-> lastCb.module,
           invocations |-> r.st.invocations,
           reads |-> r.st.reads,
           result |-> r.result,
           awaited |-> FALSE,
           observed |-> NotObserved,
           log |-> Append(r.st.log,
                          Event(IF r.result.kind = "throw" THEN "throw"
                                ELSE "return", NoSpan))])

\* client[method](...args) in the context inp.ambient, up to its return
Call(inp, limit) ==
    /\ Len(calls) < limit
    /\ Returned(inp, Len(proto[inp.method]),
                Invoke(Len(proto[inp.method]), proto[inp.method],
                       [call |-> Len(calls) + 1, behaviour |-> inp.behaviour],
                       inp.thisArg, inp.args, inp.ambient,
                       [config |-> config, spans |-> spans,
                        promises |-> promises, jobs |-> jobs,
                        invocations |-> <<>>, reads |-> <<>>, log |-> <<>>]))
    /\ UNCHANGED <<config, proto, lastCb>>

\* the promise the original returned is fulfilled or rejected by the library
Settle(p, state, value) ==
    /\ p \in DOMAIN promises
    /\ promises[p].source = "original"
    /\ promises[p].state = "pending"
    /\ LET st == SettlePromise([promises |-> promises, jobs |-> jobs],
                               p, state, value)
       IN  /\ promises' = st.promises
           /\ jobs' = st.jobs
    /\ UNCHANGED <<config, proto, lastCb, calls, spans>>

\* the caller awaits the promise call c returned
Await(c) ==
    /\ c \in DOMAIN calls
    /\ calls[c].result.kind = "thenable"
    /\ ~calls[c].awaited
    /\ LET st == Then([promises |-> promises, jobs |-> jobs],
                      calls[c].result.promise, CallerReaction(c))
       IN  /\ promises' = st.promises
           /\ jobs' = st.jobs
    /\ calls' = [calls EXCEPT ![c].awaited = TRUE]
    /\ UNCHANGED <<config, proto, lastCb, spans>>

\* setConfig(options) of the instrumentation base class: the options the
\* instrumentation holds are replaced
SetConfig(cfg) ==
    /\ config' = cfg
    /\ UNCHANGED <<proto, lastCb, calls, spans, promises, jobs>>

\* the first job of the microtask queue runs
RunJob ==
    /\ jobs # <<>>
    /\ LET j == Head(jobs)
           rest == Tail(jobs)
       IN  IF j.reaction.kind = "wrapper"
           THEN LET span == j.reaction.span
                    c == spans[span].call
                    st == [spans |-> spans, promises |-> promises, jobs |-> rest,
                           log |-> calls[c].log]
                    h == IF j.state = "fulfilled"
                         THEN onFulfilled(st, span, j.value)
                         ELSE onRejected(st, span, j.value)
                    done == SettlePromise(h.st, j.reaction.derived, h.state, h.value)
                IN  /\ spans' = done.spans
                    /\ promises' = done.promises
                    /\ jobs' = done.jobs
                    /\ calls' = [calls EXCEPT ![c].log = done.log]
           ELSE LET c == j.reaction.call
                IN  /\ calls' = [calls EXCEPT
                          ![c].observed = [state |-> j.state, value |-> j.value],
                          ![c].log = Append(@, Event("observed", NoSpan))]
                    /\ jobs' = rest
                    /\ UNCHANGED <<spans, promises>>
    /\ UNCHANGED <<config, proto, lastCb>>

\* the constructor called with the flags set either way
FlagConfigs == {c \in Configs : c.maxQueryLength = DEFAULT_CONFIG.maxQueryLength}

\* the constructor called with requireParentSpan set either way
GateConfigs ==
    {c \in FlagConfigs : c.suppressInternalInstrumentation
                            = DEFAULT_CONFIG.suppressInternalInstrumentation}

Init == Constructed(GateConfigs)

Next ==
    \/ Load("client")
    \/ Unload("client")
    \/ \E inp \in LifecycleInputs : Call(inp, MaxCalls)
    \/ \E p \in DOMAIN promises, v \in Values : Settle(p, "fulfilled", v)
    \/ \E p \in DOMAIN promises, e \in Errors : Settle(p, "rejected", e)
    \/ \E c \in DOMAIN calls : Await(c)
    \/ RunJob

Spec == Init /\ [][Next]_vars

\* the microtask queue is drained: a queued job runs
FairSpec == Spec /\ WF_vars(RunJob)

InitCalls == Constructed(FlagConfigs)

NextCalls ==
    \/ Load("client")
    \/ Unload("client")
    \/ \E inp \in CallInputs : Call(inp, MaxSeqCalls)
    \/ \E p \in DOMAIN promises, v \in Values : Settle(p, "fulfilled", v)
    \/ \E p \in DOMAIN promises, e \in Errors : Settle(p, "rejected", e)
    \/ \E c \in DOMAIN calls : Await(c)
    \/ RunJob

SpecCalls == InitCalls /\ [][NextCalls]_vars

\* the constructor called with maxQueryLength set to each length
LengthConfigs ==
    {c \in Configs :
        /\ c.requireParentSpan = DEFAULT_CONFIG.requireParentSpan
        /\ c.suppressInternalInstrumentation
              = DEFAULT_CONFIG.suppressInternalInstrumentation}

InitDerive == Constructed(LengthConfigs)

NextDerive ==
    \/ \E m \in ModuleExports : Load(m)
    \/ \E m \in ModuleExports : Unload(m)
    \/ \E inp \in DeriveInputs : Call(inp, MaxSeqCalls)
    \/ \E p \in DOMAIN promises : Settle(p, "fulfilled", "V1")
    \/ \E p \in DOMAIN promises : Settle(p, "rejected", "E1")
    \/ \E c \in DOMAIN calls : Await(c)
    \/ RunJob

SpecDerive == InitDerive /\ [][NextDerive]_vars

\* two sets of options that differ in each of the three options
SnapshotConfigs ==
    {DEFAULT_CONFIG,
     [maxQueryLength |-> 4, requireParentSpan |-> TRUE,
      suppressInternalInstrumentation |-> FALSE],
     [maxQueryLength |-> 0, requireParentSpan |-> FALSE,
      suppressInternalInstrumentation |-> FALSE]}

InitConfig == Constructed(SnapshotConfigs)

NextConfig ==
    \/ Load("client")
    \/ Unload("client")
    \/ \E cfg \in SnapshotConfigs : SetConfig(cfg)
    \/ \E inp \in ConfigInputs : Call(inp, MaxCalls)
    \/ \E p \in DOMAIN promises : Settle(p, "fulfilled", "V1")
    \/ \E p \in DOMAIN promises : Settle(p, "rejected", "E1")
    \/ \E c \in DOMAIN calls : Await(c)
    \/ RunJob

SpecConfig == InitConfig /\ [][NextConfig]_vars

\* ------------------------------------------------------------------------
\* Properties
\* ------------------------------------------------------------------------
SpansOf(c) == {s \in DOMAIN spans : spans[s].call = c}

\* the call went through a wrapper installed on the prototype
Wrapped(c) == calls[c].wrappers >= 1

\* the call went through a wrapper and a span was started for it
Traced(c) == Wrapped(c) /\ SpansOf(c) # {}

\* what the original returned or threw in call c
OriginalResult(c) == calls[c].invocations[1].result

\* event a is in the log of call c before event b
Before(c, a, b) ==
    \E i, j \in DOMAIN calls[c].log :
        i < j /\ calls[c].log[i].ev = a /\ calls[c].log[j].ev = b

Finalized(s) == spans[s].ended = 1 /\ spans[s].status # "UNSET"

\* C1: when the original throws synchronously in a call for which a span was
\* started, exactly one span exists for the call, it has status ERROR with the
\* exception recorded, and it was ended before the exception reached the
\* caller.
C1_NoLeakOnThrow ==
    \A c \in DOMAIN calls :
        (Traced(c) /\ OriginalResult(c).kind = "throw") =>
            /\ Cardinality(SpansOf(c)) = 1
            /\ \A s \in SpansOf(c) :
                  /\ spans[s].status = "ERROR"
                  /\ spans[s].exceptions = <<OriginalResult(c).value>>
                  /\ spans[s].ended = 1
            /\ Before(c, "endSpan", "throw")

\* C2 as stated: the wrapper returns the very thenable, or the very value,
\* the original returned.
C2_SameThenable ==
    \A c \in DOMAIN calls :
        (Wrapped(c) /\ OriginalResult(c).kind # "throw") =>
            calls[c].result = OriginalResult(c)

\* C2 as amended: a non-thenable result, and any result of a gated call, is
\* returned as it is; a traced call whose original returns a thenable returns
\* the promise of result.then(...), which is another object, is settled only
\* once the original's is, and then the same way with the same value or error.
C2_DerivedThenable ==
    \A c \in DOMAIN calls :
        (Wrapped(c) /\ OriginalResult(c).kind # "throw") =>
            IF Traced(c) /\ OriginalResult(c).kind = "thenable"
            THEN LET o == OriginalResult(c).promise
                     d == calls[c].result.promise
                 IN  /\ calls[c].result.kind = "thenable"
                     /\ d # o
                     /\ promises[d].source = "derived"
                     /\ promises[d].state # "pending" =>
                            /\ promises[d].state = promises[o].state
                            /\ promises[d].value = promises[o].value
            ELSE calls[c].result = OriginalResult(c)

\* a traced call whose returned promise is fulfilled with the original's value
C2_Witness ==
    \E c \in DOMAIN calls :
        /\ Traced(c)
        /\ OriginalResult(c).kind = "thenable"
        /\ promises[calls[c].result.promise].state = "fulfilled"
        /\ promises[calls[c].result.promise].value = "V2"

\* C3: a failure of the original reaches the caller as a failure with the
\* same error instance: a synchronous throw is thrown on, a rejection rejects
\* the returned promise with the same error, the original is invoked once, and
\* on the rejection path the span has recorded that exception and has status
\* ERROR with its message, and is ended, before the caller sees the rejection.
C3_ErrorIdentity ==
    \A c \in DOMAIN calls :
        Wrapped(c) =>
            /\ Len(calls[c].invocations) = 1
            /\ OriginalResult(c).kind = "throw" => calls[c].result = OriginalResult(c)
            /\ (/\ OriginalResult(c).kind = "thenable"
                /\ promises[OriginalResult(c).promise].state = "rejected") =>
                  LET err == promises[OriginalResult(c).promise].value
                      d == calls[c].result.promise
                  IN  /\ calls[c].result.kind = "thenable"
                      /\ promises[d].state # "pending" =>
                            /\ promises[d].state = "rejected"
                            /\ promises[d].value = err
                            /\ \A s \in SpansOf(c) :
                                  /\ spans[s].status = "ERROR"
                                  /\ spans[s].message = Message(err)
                                  /\ spans[s].exceptions = <<err>>
                                  /\ spans[s].ended = 1
                      /\ calls[c].observed.state # "none" =>
                            /\ calls[c].observed = [state |-> "rejected", value |-> err]
                            /\ promises[d].state = "rejected"
                            /\ Traced(c) => Before(c, "endSpan", "observed")

\* a traced call whose caller has seen the rejection with the library's error
C3_Witness ==
    \E c \in DOMAIN calls :
        /\ Traced(c)
        /\ calls[c].observed = [state |-> "rejected", value |-> "E2"]

\* C5: with requireParentSpan false, every call through the wrapper gets one
\* span of its own; the span's status is OK only if that call's promise was
\* fulfilled and ERROR only if it was rejected, with that call's error; and
\* once the promises are settled and the microtask queue is empty every span
\* has a terminal status and is ended.
C5_SpanPerCall ==
    ~config.requireParentSpan =>
        /\ Cardinality({c \in DOMAIN calls : Wrapped(c)}) = Len(spans)
        /\ \A c \in DOMAIN calls :
              (Wrapped(c) /\ OriginalResult(c).kind = "thenable") =>
                  LET o == promises[OriginalResult(c).promise]
                  IN  /\ Cardinality(SpansOf(c)) = 1
                      /\ \A s \in SpansOf(c) :
                            /\ spans[s].status = "OK" => o.state = "fulfilled"
                            /\ spans[s].status = "ERROR" =>
                                  /\ o.state = "rejected"
                                  /\ spans[s].exceptions = <<o.value>>
                                  /\ spans[s].message = Message(o.value)
                            /\ (o.state # "pending" /\ jobs = <<>>) => Finalized(s)
                            /\ spans[s].status = "UNSET" <=> spans[s].ended = 0

\* two calls in flight together, the first rejected and the second fulfilled,
\* both spans final
C5_Witness ==
    /\ ~config.requireParentSpan
    /\ \E c1, c2 \in DOMAIN calls :
          /\ c1 < c2
          /\ Wrapped(c1) /\ Wrapped(c2)
          /\ OriginalResult(c1).kind = "thenable"
          /\ OriginalResult(c2).kind = "thenable"
          /\ \E s1 \in SpansOf(c1), s2 \in SpansOf(c2) :
                /\ spans[s1].status = "ERROR"
                /\ spans[s2].status = "OK"

\* C4: with requireParentSpan true and no span active where the call is made,
\* the wrapper starts no span and invokes the original directly, in the
\* caller's context with no span and no suppression added, and returns what it
\* returns; every other call through the wrapper starts exactly one span.
C4_Gating ==
    \A c \in DOMAIN calls :
        Wrapped(c) =>
            IF config.requireParentSpan /\ getSpan(calls[c].ambient) = NoSpan
            THEN /\ SpansOf(c) = {}
                 /\ Len(calls[c].invocations) = 1
                 /\ calls[c].invocations[1].ctx = calls[c].ambient
                 /\ calls[c].result = OriginalResult(c)
            ELSE Cardinality(SpansOf(c)) = 1

\* a call passed through by the gate
C4_Witness ==
    \E c \in DOMAIN calls :
        /\ Wrapped(c)
        /\ config.requireParentSpan
        /\ getSpan(calls[c].ambient) = NoSpan
        /\ SpansOf(c) = {}
        /\ Len(calls[c].invocations) = 1

\* C6: after one or more patch callbacks in a row each of the four methods
\* carries exactly one wrapper, so that a call starts one span and reaches the
\* original once, and the unpatch callback that follows leaves the originals.
C6_IdempotentInstall ==
    /\ lastCb.module \in {"load", "reload"} =>
          \A m \in Methods : Len(proto[m]) = 1
    /\ lastCb.module = "unload" => \A m \in Methods : ~isWrapped(proto[m])
    /\ \A c \in DOMAIN calls :
          /\ calls[c].wrappers <= 1
          /\ Cardinality(SpansOf(c)) <= 1
          /\ Len(calls[c].invocations) = 1

\* a call made after a second patch callback in a row, with its one span
C6_Witness ==
    \E c \in DOMAIN calls :
        /\ calls[c].module = "reload"
        /\ calls[c].wrappers = 1
        /\ Cardinality(SpansOf(c)) = 1

\* the operation name a wrapper on the method has to report: the method name
Operation(methodName) ==
    CASE methodName = "query"   -> OpQuery
      [] methodName = "insert"  -> OpInsert
      [] methodName = "command" -> OpCommand
      [] methodName = "exec"    -> OpExec

\* C7: after any sequence of patch and unpatch callbacks on the client
\* module, query, insert, command and exec each hold one wrapper if the last
\* callback was patch and the original if it was unpatch or none was run; no
\* other property is changed; a wrapper reports the name of its method as
\* the operation, in the span name and in both operation attributes.
C7_FourMethods ==
    /\ \A p \in Props \ Methods : proto[p] = <<>>
    /\ \A m \in Methods :
          IF lastCb.module \in {"load", "reload"}
          THEN proto[m] = <<[operation |-> Operation(m)]>>
          ELSE proto[m] = <<>>
    /\ \A s \in DOMAIN spans :
          /\ spans[s].attributes[ATTR_DB_OPERATION_NAME]
                = Operation(calls[spans[s].call].method)
          /\ spans[s].attributes[ATTR_DB_OPERATION]
                = Operation(calls[spans[s].call].method)
          /\ startsWith(spans[s].name,
                        StrClickhouse \o <<".">> \o Operation(calls[spans[s].call].method))

\* the originals are back after an unpatch, and a span of an exec call made
\* through the wrapper before it exists
C7_Witness ==
    /\ lastCb.module = "unload"
    /\ \E s \in DOMAIN spans : calls[spans[s].call].method = "exec"

\* C8: a call through the wrapper invokes the original exactly once, on the
\* receiver of the call and with all the arguments of the call.
C8_Binding ==
    \A c \in DOMAIN calls :
        Wrapped(c) =>
            /\ Len(calls[c].invocations) = 1
            /\ calls[c].invocations[1].receiver = calls[c].thisArg
            /\ calls[c].invocations[1].args = calls[c].args

\* a traced call with two arguments, finished, in a suppressed scope
C8_Witness ==
    \E c \in DOMAIN calls :
        /\ Traced(c)
        /\ Len(calls[c].args) = 2
        /\ calls[c].invocations[1].ctx.suppressed
        /\ calls[c].invocations[1].args = calls[c].args
        /\ \A s \in SpansOf(c) : Finalized(s)

\* C9 as stated: the original of a traced call runs in a context whose active
\* span is the span of the call, and which carries the suppression flag if and
\* only if suppressInternalInstrumentation is true.
C9_SuppressedIffOption ==
    \A c \in DOMAIN calls :
        Traced(c) =>
            /\ calls[c].invocations[1].ctx.span \in SpansOf(c)
            /\ calls[c].invocations[1].ctx.suppressed
                  <=> config.suppressInternalInstrumentation

\* C9 as amended: the active span is the span of the call, and the context
\* carries the suppression flag if and only if the option is true or the
\* context the call was made in carried it already.
C9_SuppressionAdded ==
    \A c \in DOMAIN calls :
        Traced(c) =>
            /\ calls[c].invocations[1].ctx.span \in SpansOf(c)
            /\ calls[c].invocations[1].ctx.suppressed
                  <=> (\/ config.suppressInternalInstrumentation
                       \/ calls[c].ambient.suppressed)

\* a traced call with the option off, made in an unsuppressed context, whose
\* original ran unsuppressed in the context of the new span
C9_Witness ==
    \E c \in DOMAIN calls :
        /\ Traced(c)
        /\ ~config.suppressInternalInstrumentation
        /\ ~calls[c].ambient.suppressed
        /\ ~calls[c].invocations[1].ctx.suppressed
        /\ calls[c].invocations[1].ctx.span \in SpansOf(c)

\* the promise of call c's original is settled
Settled(c) ==
    /\ c \in DOMAIN calls
    /\ Traced(c)
    /\ OriginalResult(c).kind = "thenable"
    /\ promises[OriginalResult(c).promise].state # "pending"

\* the continuations of call c are registered on its pending promise
Attached(c) ==
    \A s \in SpansOf(c) :
        \E i \in DOMAIN promises[OriginalResult(c).promise].reactions :
            /\ promises[OriginalResult(c).promise].reactions[i].kind = "wrapper"
            /\ promises[OriginalResult(c).promise].reactions[i].span = s

\* C10: once a traced call has returned a promise the continuations are
\* registered on the original's promise, and if that promise is settled the
\* span is eventually given a terminal status and ended, whether the caller
\* awaits the returned promise or not.
C10_FireAndForget ==
    /\ [](\A c \in DOMAIN calls :
            (/\ Traced(c)
             /\ OriginalResult(c).kind = "thenable"
             /\ promises[OriginalResult(c).promise].state = "pending")
                => Attached(c))
    /\ \A c \in 1..MaxCalls :
          Settled(c) ~> (\A s \in SpansOf(c) : Finalized(s))

\* a span finalized for a call whose caller never awaited the promise
C10_Witness ==
    \E c \in DOMAIN calls :
        /\ Settled(c)
        /\ ~calls[c].awaited
        /\ \A s \in SpansOf(c) : Finalized(s)

\* the call went through a wrapper, past the gate, with params on which the
\* derivation of the table name or of the query text raises
FaultingCall(c) ==
    /\ Wrapped(c)
    /\ ~Gated(config, calls[c].ambient)
    /\ DerivationFaults(ParamsOf(calls[c].args), Operation(calls[c].method))

\* C11: when the derivation of the table name, of the query text or of the
\* attributes raises, the original is executed all the same and what it
\* returns or throws is what the caller gets; the span is made without the
\* table name or the query text.
C11_DerivationFaultTolerated ==
    \A c \in DOMAIN calls :
        FaultingCall(c) =>
            /\ Len(calls[c].invocations) = 1
            /\ calls[c].result.kind = calls[c].behaviour.kind
            /\ calls[c].behaviour.kind \in {"value", "throw"} =>
                  calls[c].result.value = calls[c].behaviour.value

\* the query string of the params of call c, <<>> when they hold none
SuppliedQuery(c) ==
    IF ParamsOf(calls[c].args).defined /\ Truthy(ParamsOf(calls[c].args).query)
    THEN ParamsOf(calls[c].args).query
    ELSE <<>>

\* the string holds a character that is no whitespace
NonBlank(q) == \E i \in DOMAIN q : q[i] \notin WhiteSpace

HasQueryText(s) == ATTR_DB_QUERY_TEXT \in DOMAIN spans[s].attributes

HasStatement(s) == ATTR_DB_STATEMENT \in DOMAIN spans[s].attributes

\* C12 as stated: a traced call has db.query.text and db.statement exactly
\* when maxQueryLength > 0 and its params supply a query text that is not
\* empty; a call with no params, or with params without a query, has neither.
C12_QueryTextOnlyFromQuery ==
    \A c \in DOMAIN calls :
        Traced(c) =>
            \A s \in SpansOf(c) :
                /\ HasQueryText(s) <=> HasStatement(s)
                /\ HasQueryText(s) <=>
                      (config.maxQueryLength > 0 /\ NonBlank(SuppliedQuery(c)))

\* C12 as amended: a traced call has db.query.text and db.statement, both or
\* neither, and has them exactly when maxQueryLength > 0 and the text the
\* wrapper derives is not empty.  That text is the query of the params when
\* they hold one (empty when it is whitespace alone), else INSERT INTO and the
\* table when they hold a table, else the name of the operation: a call with
\* no params or without a query has the attributes too.
C12_QueryTextPresence ==
    \A c \in DOMAIN calls :
        Traced(c) =>
            \A s \in SpansOf(c) :
                LET p == ParamsOf(calls[c].args)
                    a == spans[s].attributes
                    untruncated ==
                        config.maxQueryLength = DEFAULT_CONFIG.maxQueryLength
                IN  /\ HasQueryText(s) <=> HasStatement(s)
                    /\ config.maxQueryLength = 0 => ~HasQueryText(s)
                    /\ HasQueryText(s) <=>
                          /\ config.maxQueryLength > 0
                          /\ Truthy(p.query) => NonBlank(p.query)
                    /\ (untruncated /\ ~Truthy(p.query) /\ ~Truthy(p.table)) =>
                          a[ATTR_DB_QUERY_TEXT] = Operation(calls[c].method)
                    /\ (untruncated /\ ~Truthy(p.query) /\ Truthy(p.table)) =>
                          /\ Len(a[ATTR_DB_QUERY_TEXT]) > Len(StrInsertInto)
                          /\ startsWith(a[ATTR_DB_QUERY_TEXT], StrInsertInto)

\* a traced call made with no params that carries the name of its operation
\* as its query text
C12_Witness ==
    \E c \in DOMAIN calls :
        /\ Traced(c)
        /\ calls[c].args = <<>>
        /\ config.maxQueryLength > 0
        /\ \A s \in SpansOf(c) :
              /\ HasQueryText(s)
              /\ spans[s].attributes[ATTR_DB_STATEMENT] = Operation(calls[c].method)

\* C13: with maxQueryLength m > 0, the query text captured for a call whose
\* normalized query t is not empty is t itself when t has at most m
\* characters, and the first m characters of t followed by three dots when it
\* has more; db.query.text and db.statement carry the same value.
C13_Truncation ==
    \A c \in DOMAIN calls :
        (Traced(c) /\ config.maxQueryLength > 0 /\ NonBlank(SuppliedQuery(c))) =>
            \A s \in SpansOf(c) :
                LET m == config.maxQueryLength
                    t == normalizeQuery(SuppliedQuery(c))
                    v == spans[s].attributes[ATTR_DB_QUERY_TEXT]
                IN  /\ HasQueryText(s) /\ HasStatement(s)
                    /\ spans[s].attributes[ATTR_DB_STATEMENT] = v
                    /\ Len(t) <= m => v = t
                    /\ Len(t) > m =>
                          /\ Len(v) = m + 3
                          /\ SubSeq(v, 1, m) = SubSeq(t, 1, m)
                          /\ SubSeq(v, m + 1, m + 3) = <<".", ".", ".">>

\* a query of sixteen characters once normalized, captured with
\* maxQueryLength 4 as its first four characters and three dots
C13_Witness ==
    \E c \in DOMAIN calls :
        /\ Traced(c)
        /\ config.maxQueryLength = 4
        /\ calls[c].args = <<ParamsSelect>>
        /\ \A s \in SpansOf(c) :
              spans[s].attributes[ATTR_DB_QUERY_TEXT]
                  = <<"S", "E", "L", "E", ".", ".", ".">>

HasCollection(s) == ATTR_DB_COLLECTION_NAME \in DOMAIN spans[s].attributes

\* C14: the table name of an insert comes from the table field of the params
\* alone, trimmed: the span of an insert has db.collection.name exactly when
\* the params hold a table that is not blank, with that table trimmed as its
\* value, and has none when they hold no such table, whatever query they hold.
C14_InsertTableOnly ==
    \A c \in DOMAIN calls :
        (Traced(c) /\ calls[c].method = "insert") =>
            \A s \in SpansOf(c) :
                LET p == ParamsOf(calls[c].args)
                IN  IF Truthy(p.table) /\ NonBlank(p.table)
                    THEN /\ HasCollection(s)
                         /\ spans[s].attributes[ATTR_DB_COLLECTION_NAME]
                                = trim(p.table)
                    ELSE ~HasCollection(s)

\* the number of times the log of call c shows span s being ended
EndEvents(c, s) ==
    Cardinality({i \in DOMAIN calls[c].log :
                    calls[c].log[i] = Event("endSpan", s)})

\* C15: every span has had its status set at most once and has been ended at
\* most once, the two in the same step: a span is unset and open, or has one
\* terminal status and is ended once, and no path ends it a second time.
C15_FinalizedAtMostOnce ==
    \A s \in DOMAIN spans :
        /\ spans[s].statusSets <= 1
        /\ spans[s].ended <= 1
        /\ spans[s].ended = spans[s].statusSets
        /\ spans[s].status = "UNSET" <=> spans[s].statusSets = 0
        /\ Len(spans[s].exceptions) <= 1
        /\ EndEvents(spans[s].call, s) = spans[s].ended

\* two calls in flight whose promises are both settled, one rejected, and
\* whose continuations have all run: each span finalized once
C15_Witness ==
    /\ Len(spans) = 2
    /\ jobs = <<>>
    /\ \A p \in DOMAIN promises : promises[p].state # "pending"
    /\ \A s \in DOMAIN spans : spans[s].ended = 1 /\ spans[s].statusSets = 1
    /\ \E s \in DOMAIN spans : spans[s].status = "ERROR"
    /\ \A c \in DOMAIN calls : calls[c].observed.state # "none"

\* the positions of event ev in the log of call c
At(c, ev) == {i \in DOMAIN calls[c].log : calls[c].log[i].ev = ev}

\* every event a of the log of call c is before every event b
AllBefore(c, a, b) == \A i \in At(c, a), j \in At(c, b) : i < j

\* C16: in a traced call the span is started before the original begins; it
\* is finalized only after the outcome of the original is known, that is after
\* the original has returned and, for a thenable, after its promise is
\* settled; and before the caller sees the outcome: a value is returned with
\* the span ended with OK, and the caller's continuation runs with the span
\* ended.
C16_Ordering ==
    \A c \in DOMAIN calls :
        Traced(c) =>
            /\ At(c, "startSpan") # {} /\ At(c, "original") # {}
            /\ AllBefore(c, "startSpan", "original")
            /\ AllBefore(c, "original", "endSpan")
            /\ OriginalResult(c).kind = "value" =>
                  /\ Before(c, "endSpan", "return")
                  /\ AllBefore(c, "endSpan", "return")
                  /\ \A s \in SpansOf(c) : spans[s].status = "OK" /\ spans[s].ended = 1
            /\ OriginalResult(c).kind = "thenable" =>
                  /\ AllBefore(c, "return", "endSpan")
                  /\ At(c, "endSpan") # {} =>
                        promises[OriginalResult(c).promise].state # "pending"
                  /\ At(c, "observed") # {} =>
                        /\ Before(c, "endSpan", "observed")
                        /\ AllBefore(c, "endSpan", "observed")
                        /\ \A s \in SpansOf(c) : Finalized(s)

\* a traced call of a thenable whose caller has seen the fulfilment, and a
\* traced call that returned a value, in one run
C16_Witness ==
    \E c1, c2 \in DOMAIN calls :
        /\ Traced(c1) /\ Traced(c2)
        /\ OriginalResult(c1).kind = "thenable"
        /\ calls[c1].observed.state = "fulfilled"
        /\ Before(c1, "endSpan", "observed")
        /\ OriginalResult(c2).kind = "value"
        /\ Before(c2, "endSpan", "return")

\* the options call c read at its gate
GateRead(c) == calls[c].reads[1].config

\* C17: the reads of the options within one call through the wrapper all see
\* the same options, those in force when the call was made, whatever calls are
\* in flight and whatever setConfig does before or after: the call is gated by
\* the requireParentSpan it read, its attributes are built with the
\* maxQueryLength of the same options and its original runs suppressed by
\* their suppressInternalInstrumentation.
C17_ConfigSnapshot ==
    \A c \in DOMAIN calls :
        Wrapped(c) =>
            /\ Len(calls[c].reads) >= 1
            /\ calls[c].reads[1].point = "gate"
            /\ \A i \in DOMAIN calls[c].reads : calls[c].reads[i].config = GateRead(c)
            /\ IF GateRead(c).requireParentSpan /\ getSpan(calls[c].ambient) = NoSpan
               THEN /\ Len(calls[c].reads) = 1
                    /\ SpansOf(c) = {}
               ELSE /\ Len(calls[c].reads) = 3
                    /\ calls[c].reads[2].point = "attributes"
                    /\ calls[c].reads[3].point = "call"
                    /\ Cardinality(SpansOf(c)) = 1
                    /\ \A s \in SpansOf(c) :
                          HasQueryText(s) <=> GateRead(c).maxQueryLength > 0
                    /\ calls[c].invocations[1].ctx.suppressed
                          = GateRead(c).suppressInternalInstrumentation

\* two traced calls in flight together that were made under different
\* options, the options having changed again since
C17_Witness ==
    \E c1, c2 \in DOMAIN calls :
        /\ c1 < c2
        /\ Traced(c1) /\ Traced(c2)
        /\ Len(calls[c1].reads) = 3 /\ Len(calls[c2].reads) = 3
        /\ GateRead(c1) # GateRead(c2)
        /\ config # GateRead(c1) /\ config # GateRead(c2)
        /\ OriginalResult(c1).kind = "thenable"
        /\ OriginalResult(c2).kind = "thenable"
        /\ promises[OriginalResult(c1).promise].state = "pending"
        /\ promises[OriginalResult(c2).promise].state = "pending"

\* the table name the span s carries, Null when it carries none
CollectionOf(s) ==
    IF HasCollection(s) THEN spans[s].attributes[ATTR_DB_COLLECTION_NAME] ELSE Null

\* the table name the patterns give for each query of the specification, in
\* the order FROM, INSERT INTO, UPDATE at the start, DELETE FROM at the start
ExpectedTable(params) ==
    CASE params = ParamsSelect -> <<"t", "1">>
      [] params = ParamsTableAndQuery -> <<"t", "1">>
      [] params = ParamsInsertSelect -> <<"b">>
      [] params = ParamsAlterUpdate -> Null
      [] params = ParamsUpdate -> <<"t", "2">>
      [] params = ParamsDelete -> <<"d", ".", "t">>
      [] params = ParamsOptimize -> Null
      [] params = ParamsBlankQuery -> Null
      [] OTHER -> Null

\* C18: for query, command and exec the table name is the first match in the
\* order FROM, INSERT INTO, UPDATE when the query starts with UPDATE, DELETE
\* FROM when it starts with DELETE, with the delimiters stripped: a query with
\* an INSERT INTO and a FROM clause gives the identifier after FROM, an UPDATE
\* that is not at the start gives none, and a query that matches no pattern
\* gives none, the call being traced and carried out all the same.
C18_TablePriority ==
    \A c \in DOMAIN calls :
        (Wrapped(c) /\ calls[c].method # "insert"
                    /\ ParamsOf(calls[c].args) \in TypedParams) =>
            /\ Cardinality(SpansOf(c)) = 1
            /\ Len(calls[c].invocations) = 1
            /\ calls[c].result.kind = calls[c].behaviour.kind
            /\ \A s \in SpansOf(c) :
                  /\ CollectionOf(s) = ExpectedTable(ParamsOf(calls[c].args))
                  /\ HasCollection(s) =>
                        \A i \in DOMAIN CollectionOf(s) :
                            CollectionOf(s)[i] \notin QuoteChars

\* a traced command whose query holds an INSERT INTO and a FROM clause, with
\* the identifier after FROM as its table
C18_Witness ==
    \E c \in DOMAIN calls :
        /\ Traced(c)
        /\ calls[c].method = "command"
        /\ calls[c].args = <<ParamsInsertSelect>>
        /\ \A s \in SpansOf(c) : CollectionOf(s) = <<"b">>

\* C19: a patch or unpatch callback that receives exports without a client
\* class with a prototype returns those exports, wraps and unwraps nothing and
\* leaves the prototype, the spans and the calls as they are.
C19_MissingShape ==
    [][(lastCb' # lastCb /\ ~HasPrototype(lastCb'.exports)) =>
          /\ lastCb'.returned = lastCb'.exports
          /\ lastCb'.module = lastCb.module
          /\ proto' = proto
          /\ UNCHANGED <<config, calls, spans, promises, jobs>>]_vars

\* the unpatch callback has run on exports without the client class after the
\* wrappers were installed, and the four wrappers are still in place
C19_Witness ==
    /\ lastCb.kind = "unload"
    /\ lastCb.exports = "other"
    /\ lastCb.returned = "other"
    /\ lastCb.module = "load"
    /\ \A m \in Methods : Len(proto[m]) = 1

\* clickhouse.<operation> for the operation of the call of span s
NamePrefix(s) ==
    <<"c", "l", "i", "c", "k", "h", "o", "u", "s", "e", ".">>
        \o Operation(calls[spans[s].call].method)

\* C20: the name of a span is clickhouse.<operation>, a space and the table
\* exactly when the span carries db.collection.name, the table being the value
\* of that attribute, which is not empty; without the attribute the name is
\* clickhouse.<operation> alone.  Every attribute a span carries has a value:
\* none is undefined or null.
C20_NameMatchesAttributes ==
    \A s \in DOMAIN spans :
        /\ IF HasCollection(s)
           THEN /\ CollectionOf(s) # <<>>
                /\ spans[s].name = NamePrefix(s) \o <<" ">> \o CollectionOf(s)
           ELSE spans[s].name = NamePrefix(s)
        /\ \A k \in DOMAIN spans[s].attributes :
              IF k = ATTR_SERVER_PORT
              THEN spans[s].attributes[k] \in Nat
              ELSE spans[s].attributes[k] \notin {Undefined, Null}

\* an insert whose table is whitespace alone: the span is named
\* clickhouse.insert and carries no db.collection.name
C20_Witness ==
    \E s \in DOMAIN spans :
        /\ calls[spans[s].call].method = "insert"
        /\ calls[spans[s].call].args = <<ParamsBlankTable>>
        /\ ~HasCollection(s)
        /\ spans[s].name = NamePrefix(s)

====
